---------------------------- MODULE Spec2Model ----------------------------
(***************************************************************************)
(* A model of the fantasy-football optimizer "FPL Team Selector/test3.py": *)
(* one run of main(), from reading the current-squad snapshot to printing  *)
(* the report.                                                             *)
(*                                                                         *)
(* Units.  Expected points are held in hundredths of a point (the code     *)
(* rounds them to two decimals, line 124), costs in tenths of a currency   *)
(* unit (now_cost, which the code divides by 10.0).                        *)
(*                                                                         *)
(* The solver (PuLP/CBC) is an external collaborator: a call to it is      *)
(* modelled as a nondeterministic choice among the assignments that        *)
(* satisfy the constraints the code submits and maximise the objective it  *)
(* submits, or the infeasibility signal when there is none.                *)
(*                                                                         *)
(* Input domain.  Player ids of the feed are distinct.  A snapshot is a     *)
(* file anyone may have written: it may hold unknown ids, ill-formed       *)
(* records, more than 15 records, and the same id twice.                   *)
(***************************************************************************)
EXTENDS Integers, Sequences, FiniteSets, TLC

(***************************************************************************)
(* Bounds of the model.                                                    *)
(***************************************************************************)
\* number of player records in the feed
NumPlayers == 17

(***************************************************************************)
(* Program constants.                                                      *)
(***************************************************************************)
SQUAD_FILE == "current_squad.json"
\* prob += lpSum(select.values()) == 15
SquadSize == 15
\* ... <= 100.0, in tenths
BudgetCap == 1000
\* ... <= 3 per team_id
ClubCap == 3
\* for team_id in range(1, 21)
LastTeamId == 20
\* - 4 * extra_transfers, in hundredths
ExtraTransferPenalty == 400
\* prob2 += lpSum(select2...) == 11
LineupSize == 11
\* next_gw == 16 (AFCON rule)
AfconGw == 16
\* free_transfers = 5 if ... else min(args.transfers, 5)
MaxFreeTransfers == 5

pos_counts == [pos \in 1..4 |-> CASE pos = 1 -> 2 [] pos = 2 -> 5
                                  [] pos = 3 -> 5 [] pos = 4 -> 3]

formations == << <<3, 5, 2>>, <<3, 4, 3>>, <<4, 4, 2>>, <<4, 3, 3>>,
                 <<4, 5, 1>>, <<5, 4, 1>>, <<5, 3, 2>> >>

\* the values of --chip; "none" stands for Python's None (no --chip)
Chips == {"none", "wildcard", "free_hit", "bench_boost", "triple_captain"}

UnlimitedChips == {"wildcard", "free_hit"}

\* chance_of_playing_next_round is <<c>> for the number c and <<>> for a
\* JSON null (Python's None)
NULL == << >>

\* Python's None for an unset string (args.squad, best_form)
None == "None"

\* Python's None for an unset player (best_captain, best_vice); ids are >= 1
NoPlayer == 0

VARIABLES
    pc,              \* the position of main()
    chip,            \* args.chip
    transfersArg,    \* args.transfers
    squadArg,        \* args.squad (None when not given)
    files,           \* the file system: path -> [status, content]
    current_squad,   \* main's current_squad
    players,         \* the feed's player records, in feed order
    team_nfix,       \* the number of fixtures of each club this round
    next_gw,
    free_transfers,
    expected_points, \* id -> expected points, of the eligible players
    selected,        \* the squad: a sequence of player ids
    total_cost,
    squad_expected,
    fIdx,            \* optimize_lineup: the formation the loop is at
    best_form,
    best_proj,
    best_lineup,
    best_captain,
    best_vice,
    lineup_sum,      \* the loop's locals, of the formation last evaluated
    cap_bonus,
    bench_sum,
    proj_total,
    proj_log,        \* <<formation index, proj_total>> of each formation evaluated
    bench,
    output,          \* what print_output reported
    events,          \* the steps of main() so far, in order: reads and writes of
                     \* files, the selectors' returns, the report
    run,             \* the number of the run of main() on this file system
    py_sum,          \* how the amounts are added: "exact" where they are
                     \* carried in hundredths, else the interpreter's sum()
    \* 9Star_KI_Profile/main.py: the locals of main()
    ki_pc,           \* the position of main()
    birth_year,
    birth_month,
    birth_day,
    gender,          \* after strip().upper()
    main_num,
    energy_num,
    trend_num,
    \* pdf-x-agent/src/agent.py: one PDFXAgent and what it works on
    ag_pc,           \* "init" inside __init__ before load_state, then "ready"
    state_file,      \* data/agent_state.json
    state,           \* self.state
    pdf_files,       \* the names of the *.pdf files in PDF_DIR
    calls            \* the number of operations carried out so far

vars == << pc, chip, transfersArg, squadArg, files, current_squad, players,
           team_nfix, next_gw, free_transfers, expected_points, selected,
           total_cost, squad_expected, fIdx, best_form, best_proj,
           best_lineup, best_captain, best_vice, lineup_sum, cap_bonus, bench_sum, proj_total, proj_log,
           bench, output, events, run, py_sum,
           ki_pc, birth_year, birth_month, birth_day, gender, main_num,
           energy_num, trend_num,
           ag_pc, state_file, state, pdf_files, calls >>

\* the variables of the 9 Star Ki calculator
kiVars == << ki_pc, birth_year, birth_month, birth_day, gender, main_num,
             energy_num, trend_num >>

\* the variables of the PDF agent
agentVars == << ag_pc, state_file, state, pdf_files, calls >>

\* the variables of the other programs of the repository
otherPrograms == << kiVars, agentVars >>

\* what a step of one run of the team selector's main() leaves as it is
outside == << run, py_sum, otherPrograms >>

(***************************************************************************)
(* Generic helpers.                                                        *)
(***************************************************************************)
Range(s) == {s[i] : i \in DOMAIN s}

RECURSIVE SumUpTo(_, _, _)
\* sum(f[x] for x in S if x <= n)
SumUpTo(f, S, n) ==
    IF n = 0 THEN 0
    ELSE (IF n \in S THEN f[n] ELSE 0) + SumUpTo(f, S, n - 1)

\* sum(f[x] for x in S), S a set of player ids of the feed
SumF(f, S) == SumUpTo(f, S, NumPlayers)

RECURSIVE SumSeq(_, _)
\* sum(f[s[i]] for i), in list order
SumSeq(f, s) ==
    IF s = <<>> THEN 0 ELSE f[Head(s)] + SumSeq(f, Tail(s))

RECURSIVE KSubsets(_, _)
\* the subsets of S with exactly k members
KSubsets(S, k) ==
    IF k = 0 THEN {{}}
    ELSE IF k > Cardinality(S) THEN {}
    ELSE LET x == CHOOSE y \in S : TRUE
         IN  {T \cup {x} : T \in KSubsets(S \ {x}, k - 1)}
             \cup KSubsets(S \ {x}, k)

\* [x for x in s if x in S], the list comprehension's order kept
FilterSeq(s, S) == SelectSeq(s, LAMBDA x : x \in S)

Min2(a, b) == IF a <= b THEN a ELSE b

Max2(a, b) == IF a >= b THEN a ELSE b

\* the greatest member of the non-empty set S of integers
SetMax(S) == CHOOSE m \in S : \A n \in S : n <= m

(***************************************************************************)
(* The input feed.  A feed is drawn from a family with four parameters:    *)
(* the expected-points profile <<base, step>>, the price step, the club    *)
(* the star players share, and the availability profile.  Player i has     *)
(* id i (feed order = id order); its quality Quality(i) in 0..4 drives     *)
(* both its per-fixture score and its price.                               *)
(***************************************************************************)
Quality(i) == (i * 7) % 5

\* ids 1-2 goalkeepers, 3-7 defenders, 8-12 midfielders, 13-15 forwards;
\* the further players are a defender, a midfielder, a forward, a
\* goalkeeper, and so on
ElementTypeOf(i) ==
    IF i <= 2 THEN 1
    ELSE IF i <= 7 THEN 2
    ELSE IF i <= 12 THEN 3
    ELSE IF i <= 15 THEN 4
    ELSE LET k == (i - 16) % 4 IN IF k = 3 THEN 1 ELSE k + 2

\* the players of quality 4 share the club starClub, the others are spread
\* over the clubs 1..6
TeamOf(i, starClub) == IF Quality(i) = 4 THEN starClub ELSE ((i - 1) % 6) + 1

\* availability profile 0: everyone available; profile 1: player 1 has a
\* null availability, player 2 is at 50, the last player is at 0
ChanceOf(i, avail) ==
    IF avail = 0 THEN <<100>>
    ELSE IF i = 1 THEN NULL
    ELSE IF i = 2 THEN <<50>>
    ELSE IF i = NumPlayers THEN <<0>>
    ELSE <<100>>

\* availability profile 1: club 6 has a blank round, club 3 a double one
NFixOf(t, avail) ==
    IF avail = 0 THEN 1
    ELSE IF t = 6 THEN 0
    ELSE IF t = 3 THEN 2
    ELSE 1

\* <<base, step, skew>>: fix_exp = base + step * Quality(i) + skew * i.
\* All at zero; all negative and distinct; of both signs and distinct;
\* positive, equal for equal quality
AllZero == <<0, 0, 0>>

EpProfiles == { AllZero, <<-600, 50, 3>>, <<-100, 50, 3>>, <<100, 100, 0>> }

PriceSteps == {10, 14}

StarClubs == {20, 21}

AvailProfiles == {0, 1}

\* the feeds drawn; the feed with every player at zero, where every squad
\* and every lineup is optimal, is drawn with availability profile 1 only
FeedParams ==
    {f \in EpProfiles \X PriceSteps \X StarClubs \X AvailProfiles :
        f[1] = AllZero => f[4] = 1}

TeamIds == 1..6 \cup StarClubs

Feed(ep, price, star, avail) ==
    [i \in 1..NumPlayers |->
        [id           |-> i,
         web_name     |-> <<"name", i>>,
         element_type |-> ElementTypeOf(i),
         team         |-> TeamOf(i, star),
         now_cost     |-> 40 + price * Quality(i),
         chance       |-> ChanceOf(i, avail),
         fix_exp      |-> ep[1] + ep[2] * Quality(i) + ep[3] * i]]

(***************************************************************************)
(* The snapshot file.  A record of a snapshot is modelled by its id; 0 is  *)
(* a record of the wrong shape (not a dict, or without 'id'), 99 an id     *)
(* the feed does not hold.                                                 *)
(***************************************************************************)
BaseSquad == [i \in 1..SquadSize |-> i]

\* the base squad with its last forward replaced by the extra defender,
\* listed first
OtherSquad == <<16>> \o [i \in 1..(SquadSize - 1) |-> i]

\* a snapshot with an ill-formed record and an unknown id
BrokenSquad == <<0>> \o [i \in 1..(SquadSize - 1) |-> i] \o <<99>>

\* a hand-written snapshot of sixteen records: the squad and one more player
LargeSquad == BaseSquad \o <<16>>

\* a hand-written snapshot of fifteen records that lists player 3 twice and
\* leaves out the last forward
RepeatSquad == <<3, 3, 1, 2>> \o [i \in 1..(SquadSize - 4) |-> i + 3]

\* a snapshot with a defender and a midfielder too many and two forwards
\* too few: a squad of another season's rules, two transfers away from a
\* valid one
TwoOffSquad == <<16, 17>> \o [i \in 1..(SquadSize - 2) |-> i]

\* a snapshot none of whose records is usable: a bare id in place of a
\* record, and a player the feed no longer holds
StaleSquad == <<0, 99>>

\* a valid squad without player 6 (whose club may have a blank round): the
\* extra defender in its place
SpareSquad == <<1, 2, 3, 4, 5, 7, 16>> \o [i \in 1..8 |-> i + 7]

\* a snapshot of 14 records: two goalkeepers, the defenders 3, 4, 6, 7 and
\* 17, five midfielders and the forwards 13 and 14
ShortSquad == <<1, 2, 3, 4, 6, 7, 17>> \o [i \in 1..7 |-> i + 7]

Snapshots == {BaseSquad, OtherSquad, BrokenSquad, LargeSquad, RepeatSquad}

OVERRIDE_FILE == "my_squad.json"

Paths == {SQUAD_FILE, OVERRIDE_FILE}

Absent == [status |-> "absent", content |-> <<>>]

FileOk(s) == [status |-> "ok", content |-> s]

(***************************************************************************)
(* load_squad and the override branch of main (lines 17-26, 311-319).      *)
(* status "absent": no such file; "malformed": not JSON; "unreadable":     *)
(* the file exists and open() raises an OSError; "ok": a JSON list.        *)
(***************************************************************************)
Returned(v) == [raised |-> FALSE, value |-> v]

Raised == [raised |-> TRUE, value |-> <<>>]

\* load_squad(): only json.JSONDecodeError is caught; an OSError of open()
\* escapes
load_squad ==
    LET f == files[SQUAD_FILE] IN
    CASE f.status = "absent"     -> Returned(<<>>)
      [] f.status = "ok"         -> Returned(f.content)
      [] f.status = "malformed"  -> Returned(<<>>)
      [] f.status = "unreadable" -> Raised

\* with --squad: open + json.load under "except Exception"
load_override ==
    LET f == files[squadArg] IN
    IF f.status = "ok" THEN Returned(f.content) ELSE Returned(<<>>)

\* the files main opens for reading: SQUAD_FILE when it exists (line 19),
\* or the --squad file, whether it exists or not (line 315)
ReadEvents ==
    IF squadArg = None
    THEN IF files[SQUAD_FILE].status = "absent" THEN <<>>
         ELSE << <<"read", SQUAD_FILE>> >>
    ELSE << <<"read", squadArg>> >>

LoadSquad ==
    /\ pc = "load"
    /\ LET r == IF squadArg = None THEN load_squad ELSE load_override IN
       IF r.raised
       THEN /\ pc' = "crashed"
            /\ UNCHANGED current_squad
       ELSE /\ pc' = "fetch"
            /\ current_squad' = r.value
    /\ events' = events \o ReadEvents
    /\ UNCHANGED << chip, transfersArg, squadArg, files, players, team_nfix,
                    next_gw, free_transfers, expected_points, selected,
                    total_cost, squad_expected, fIdx, best_form, best_proj,
                    best_lineup, best_captain, best_vice, lineup_sum,
                    cap_bonus, bench_sum, proj_total, proj_log, bench, output >>
    /\ UNCHANGED outside

(***************************************************************************)
(* fetch_data (lines 40-55) and the free-transfer adjustment (line 325).   *)
(***************************************************************************)
NextGws == {15, 16}

FetchData ==
    /\ pc = "fetch"
    /\ \E f \in FeedParams, gw \in NextGws :
         /\ players' = Feed(f[1], f[2], f[3], f[4])
         /\ team_nfix' = [t \in TeamIds |-> NFixOf(t, f[4])]
         /\ next_gw' = gw
         /\ free_transfers' = IF gw = AfconGw THEN MaxFreeTransfers
                              ELSE Min2(transfersArg, MaxFreeTransfers)
    /\ pc' = "points"
    /\ UNCHANGED << chip, transfersArg, squadArg, files, current_squad,
                    expected_points, selected, total_cost, squad_expected,
                    fIdx, best_form, best_proj, best_lineup, best_captain,
                    best_vice, lineup_sum, cap_bonus, bench_sum, proj_total, proj_log, bench, output, events >>
    /\ UNCHANGED outside

(***************************************************************************)
(* calculate_expected_points (lines 88-132).  The product                  *)
(* base * diff_factor * home_bonus * strength_factor * (1 + ict_boost) of  *)
(* one fixture is the feed's fix_exp (hundredths); a club's fixtures all   *)
(* contribute that much.                                                   *)
(***************************************************************************)
\* round(x / 100, 2) of an integer number x of ten-thousandths: to the
\* nearest hundredth, a half to the even one
RoundDiv100(x) ==
    LET fl == IF x >= 0 THEN x \div 100 ELSE -((-x + 99) \div 100)
        r  == x - fl * 100
    IN  IF r > 50 THEN fl + 1
        ELSE IF r < 50 THEN fl
        ELSE IF fl % 2 = 0 THEN fl ELSE fl + 1

\* variant: a null availability taken as 0
ChanceFactorPct_NullAsZero(chance) == IF chance = NULL THEN 0 ELSE chance[1]

\* lines 99-108: float(chance) / 100.0, and 1.0 when float(None) raises
ChanceFactorPct(chance) == IF chance = NULL THEN 100 ELSE chance[1]

\* variant: the test for a club without fixtures left out
Eligible_ChanceOnly(p) == p.chance # <<0>>

\* lines 94-101: the players that get an expected-points value
Eligible(p) ==
    /\ team_nfix[p.team] > 0
    /\ p.chance # <<0>>

ExpOf(p) == RoundDiv100(p.fix_exp * team_nfix[p.team] * ChanceFactorPct(p.chance))

CalculateExpectedPoints ==
    /\ pc = "points"
    /\ expected_points' =
         [i \in {j \in DOMAIN players : Eligible(players[j])} |-> ExpOf(players[i])]
    /\ pc' = "squad"
    /\ UNCHANGED << chip, transfersArg, squadArg, files, current_squad,
                    players, team_nfix, next_gw, free_transfers, selected,
                    total_cost, squad_expected, fIdx, best_form, best_proj,
                    best_lineup, best_captain, best_vice, lineup_sum,
                    cap_bonus, bench_sum, proj_total, proj_log, bench, output, events >>
    /\ UNCHANGED outside

(***************************************************************************)
(* optimize_squad (lines 135-213).                                         *)
(***************************************************************************)
\* line 137: the ids of avail_players
AvailIds == DOMAIN expected_points

\* lines 141-151: the ids of current_squad_players, in snapshot order; a
\* record of the wrong shape (0) or with an id that is not eligible is
\* skipped
CurrentSquadPlayers == SelectSeq(current_squad, LAMBDA e : e \in AvailIds)

\* variant: the mode taken from the snapshot as read, not from the
\* players matched
TransferMode_AnySnapshot == current_squad # <<>> /\ chip \notin UnlimitedChips

\* lines 162, 173, 186, 205: the mode test
TransferMode == CurrentSquadPlayers # <<>> /\ chip \notin UnlimitedChips

NowCost == [i \in DOMAIN players |-> players[i].now_cost]

OfType(S, pos) == {i \in S : players[i].element_type = pos}

OfTeam(S, team_id) == {i \in S : players[i].team = team_id}

\* the 0/1 assignments with 15 ones that meet the position equalities
\* (lines 174/181 and 187-190/195-196), as the sets of the players chosen:
\* two goalkeepers, five defenders, five midfielders and three forwards
\* (a player of any other element_type cannot be among 15 such players)
PositionAssignments ==
    {G \cup D \cup M \cup F :
        G \in KSubsets(OfType(AvailIds, 1), pos_counts[1]),
        D \in KSubsets(OfType(AvailIds, 2), pos_counts[2]),
        M \in KSubsets(OfType(AvailIds, 3), pos_counts[3]),
        F \in KSubsets(OfType(AvailIds, 4), pos_counts[4])}

\* lines 197-198 (and 191-193): for team_id in range(1, 21): ... <= 3.
\* A team_id of that range that no player of S has holds trivially, so
\* only the clubs of S's players are counted
ClubConstraint(S) ==
    \A team_id \in {players[i].team : i \in S} \cap (1..LastTeamId) :
        Cardinality(OfTeam(S, team_id)) <= ClubCap

\* variant: the budget constraint left out
BudgetConstraint_Dropped(S) == TRUE

\* line 182: the fixed budget of full-rebuild mode
BudgetConstraint(S) == SumF(NowCost, S) <= BudgetCap

\* lines 181-182, 195-198: the constraints of full-rebuild mode
RebuildFeasible(S) ==
    /\ Cardinality(S) = SquadSize
    /\ BudgetConstraint(S)
    /\ ClubConstraint(S)

\* line 170: the objective of full-rebuild mode
RebuildObjective(S) == SumF(expected_points, S)

\* the entries of current_squad_players whose keep variable is 1, and those
\* whose keep variable is 0; csp is current_squad_players, S the players
\* whose keep or buy variable is 1.  The keep variables are keyed by id, so
\* a player listed twice in the snapshot has one variable and two entries
KeptEntries(S, csp) == SelectSeq(csp, LAMBDA e : e \in S)

SoldEntries(S, csp) == SelectSeq(csp, LAMBDA e : e \notin S)

\* the players with buy = 1
Bought(S, csp) == S \ Range(csp)

\* line 174: lpSum(keep.values()) + lpSum(buy.values()) == 15
TotalConstraint(S, csp) ==
    Cardinality(S \cap Range(csp)) + Cardinality(Bought(S, csp)) = SquadSize

\* variant: the squad is filled up by purchases, sold or not
SoldEqualsBought_Dropped(S, csp) == TRUE

\* line 175: lpSum(1 - keep[id] for p in current_squad_players) == bought
SoldEqualsBought(S, csp) ==
    Len(SoldEntries(S, csp)) = Cardinality(Bought(S, csp))

\* lines 176-179: buy_cost <= sold_value
SellToBuyBudget(S, csp) ==
    SumF(NowCost, Bought(S, csp)) <= SumSeq(NowCost, SoldEntries(S, csp))

\* lines 187-190: per position, the kept entries plus the bought players
TransferPositionConstraint(S, csp) ==
    \A pos \in DOMAIN pos_counts :
        Len(SelectSeq(KeptEntries(S, csp),
                      LAMBDA e : players[e].element_type = pos))
          + Cardinality(OfType(Bought(S, csp), pos)) = pos_counts[pos]

\* lines 191-193: per team_id of range(1, 21), the kept entries plus the
\* bought players
TransferClubConstraint(S, csp) ==
    \A team_id \in {players[i].team : i \in S} \cap (1..LastTeamId) :
        Len(SelectSeq(KeptEntries(S, csp),
                      LAMBDA e : players[e].team = team_id))
          + Cardinality(OfTeam(Bought(S, csp), team_id)) <= ClubCap

\* lines 174-179, 187-193: the constraints of transfer mode
TransferFeasible(S, csp) ==
    /\ TotalConstraint(S, csp)
    /\ SoldEqualsBought(S, csp)
    /\ SellToBuyBudget(S, csp)
    /\ TransferPositionConstraint(S, csp)
    /\ TransferClubConstraint(S, csp)

\* line 167 with the objective's - 4 * extra_transfers: the least integer
\* extra_transfers >= 0 with sold <= free_transfers + extra_transfers
ExtraTransfers(S, csp) ==
    Max2(0, Len(SoldEntries(S, csp)) - free_transfers)

\* lines 164-166: the objective of transfer mode
TransferObjective(S, csp) ==
    SumSeq(expected_points, KeptEntries(S, csp))
      + SumF(expected_points, Bought(S, csp))
      - ExtraTransferPenalty * ExtraTransfers(S, csp)

\* variant: a best squad by position counts alone when nothing is feasible
SolveSquad_BestEffort ==
    LET csp == CurrentSquadPlayers
        feasible == IF TransferMode
                    THEN {T \in PositionAssignments : TransferFeasible(T, csp)}
                    ELSE {T \in PositionAssignments : RebuildFeasible(T)}
        pool == IF feasible = {} THEN PositionAssignments ELSE feasible
        best == SetMax({SumF(expected_points, S) : S \in pool})
    IN  IF pool = {} THEN {}
        ELSE {S \in pool : SumF(expected_points, S) = best}

\* prob.solve: the optimal assignments ({} when the status is not Optimal).
\* An assignment that meets line 174 and the equalities of lines 187-190
\* has 15 players with the position counts, each listed once among the kept
\* entries, so the transfer-mode search is over PositionAssignments too
SolveSquad ==
    LET csp == CurrentSquadPlayers
        transfer == TransferMode
        scored ==
            IF transfer
            THEN {<<S, TransferObjective(S, csp)>> :
                     S \in {T \in PositionAssignments : TransferFeasible(T, csp)}}
            ELSE {<<S, RebuildObjective(S)>> :
                     S \in {T \in PositionAssignments : RebuildFeasible(T)}}
    IN  IF scored = {} THEN {}
        ELSE LET best == SetMax({s[2] : s \in scored})
             IN  {s[1] : s \in {t \in scored : t[2] = best}}

\* lines 205-210: the list `selected`
SelectedList(S) ==
    IF TransferMode
    THEN KeptEntries(S, CurrentSquadPlayers)
         \o FilterSeq([i \in DOMAIN players |-> i],
                      Bought(S, CurrentSquadPlayers))
    ELSE FilterSeq([i \in DOMAIN players |-> i], S)

\* the branch the tests of lines 162, 173, 186 and 205 take
SquadMode == IF TransferMode THEN "transfer" ELSE "rebuild"

OptimizeSquad ==
    /\ pc = "squad"
    /\ LET optimal == SolveSquad IN
       IF optimal = {}
       THEN \* raise ValueError("No optimal squad.")
            /\ pc' = "crashed"
            /\ events' = Append(events, <<"optimize_squad", SquadMode, "raised">>)
            /\ UNCHANGED << selected, total_cost, squad_expected >>
       ELSE \E S \in optimal :
            /\ selected' = SelectedList(S)
            /\ total_cost' = SumSeq(NowCost, SelectedList(S))
            /\ squad_expected' = SumSeq(expected_points, SelectedList(S))
            /\ pc' = "lineup"
            /\ events' = Append(events, <<"optimize_squad", SquadMode, "returned">>)
    /\ UNCHANGED << chip, transfersArg, squadArg, files, current_squad,
                    players, team_nfix, next_gw, free_transfers,
                    expected_points, fIdx, best_form, best_proj, best_lineup,
                    best_captain, best_vice, lineup_sum, cap_bonus, bench_sum, proj_total, proj_log, bench,
                    output >>
    /\ UNCHANGED outside

(***************************************************************************)
(* optimize_lineup (lines 216-252): one step per formation of the loop.    *)
(***************************************************************************)
FormationLabel(f) == ToString(f[1]) \o "-" \o ToString(f[2]) \o "-" \o ToString(f[3])

\* the subsets of the squad's players of position pos with k members, each
\* with its summed expected points
ScoredSubsets(pos, k) ==
    {<<X, SumF(expected_points, X)>> : X \in KSubsets(OfType(Range(selected), pos), k)}

\* lines 228-233: the 0/1 assignments over the squad that meet the four
\* position equalities of formation f and hold 11 players, each with the
\* value of the objective (line 228), the sum of its parts' sums
LineupAssignments(f) ==
    {s \in {<<G[1] \cup D[1] \cup M[1] \cup F[1], G[2] + D[2] + M[2] + F[2]>> :
                G \in ScoredSubsets(1, 1), D \in ScoredSubsets(2, f[1]),
                M \in ScoredSubsets(3, f[2]), F \in ScoredSubsets(4, f[3])} :
        Cardinality(s[1]) = LineupSize}

\* variant: any assignment that meets the constraints is returned
SolveLineup_AnyFeasible(f) == {s[1] : s \in LineupAssignments(f)}

\* prob2.solve: the optimal assignments ({} when the status is not Optimal)
SolveLineup(f) ==
    LET scored == LineupAssignments(f)
    IN  IF scored = {} THEN {}
        ELSE LET best == SetMax({s[2] : s \in scored})
             IN  {s[1] : s \in {t \in scored : t[2] = best}}

RECURSIVE InsertDesc(_, _)
\* x put into the list s, sorted by descending expected points, after the
\* members that are at least its equal
InsertDesc(x, s) ==
    IF s = <<>> THEN <<x>>
    ELSE IF expected_points[Head(s)] >= expected_points[x]
         THEN <<Head(s)>> \o InsertDesc(x, Tail(s))
         ELSE <<x>> \o s

RECURSIVE SortedDesc(_)
\* sorted(s, key=expected_points, reverse=True): stable, equal members keep
\* their order
SortedDesc(s) ==
    IF s = <<>> THEN <<>>
    ELSE InsertDesc(s[Len(s)], SortedDesc(SubSeq(s, 1, Len(s) - 1)))

RECURSIVE MaxByEp(_)
\* max(s, key=expected_points): the first member with the highest value
MaxByEp(s) ==
    IF Len(s) = 1 THEN s[1]
    ELSE LET m == MaxByEp(SubSeq(s, 1, Len(s) - 1))
         IN  IF expected_points[s[Len(s)]] > expected_points[m]
             THEN s[Len(s)] ELSE m

\* variant: the captain's value added once, as in the older main.py
CapMultiplier_Single == IF chip # "triple_captain" THEN 1 ELSE 3

\* line 240: 2 if chip != 'triple_captain' else 3
CapMultiplier == IF chip # "triple_captain" THEN 2 ELSE 3

\* variant: exps sorted in ascending order, the lowest value taken
CapBonus_Ascending(lineup) ==
    IF lineup = <<>> THEN 0
    ELSE expected_points[SortedDesc(lineup)[Len(lineup)]] * CapMultiplier

\* line 240: exps[0] * multiplier if exps else 0
CapBonus(lineup) ==
    IF lineup = <<>> THEN 0
    ELSE expected_points[SortedDesc(lineup)[1]] * CapMultiplier

\* variant: the whole squad added, the "not in lineup" filter forgotten
BenchBoost_WholeSquad(lineup) ==
    IF chip = "bench_boost" THEN SumSeq(expected_points, selected) ELSE 0

\* lines 242-243: the bench's part of proj_total
BenchBoost(lineup) ==
    IF chip = "bench_boost"
    THEN SumSeq(expected_points, FilterSeq(selected, Range(selected) \ Range(lineup)))
    ELSE 0

\* line 244: if proj_total > best_proj
Improves(proj) == proj > best_proj

\* variant: the vice-captain taken as the best member with a value strictly
\* below the captain's
ViceOf_NextValue(lineup) ==
    LET top   == expected_points[SortedDesc(lineup)[1]]
        below == SelectSeq(SortedDesc(lineup), LAMBDA m : expected_points[m] < top)
    IN  IF below = <<>> THEN NoPlayer ELSE below[1]

\* line 249: the vice-captain
ViceOf(lineup) == IF Len(lineup) > 1 THEN SortedDesc(lineup)[2] ELSE NoPlayer

OptimizeLineupStep ==
    /\ pc = "lineup"
    /\ fIdx <= Len(formations)
    /\ LET f == formations[fIdx]
           optimal == SolveLineup(f)
       IN  IF optimal = {}
           THEN UNCHANGED << best_form, best_proj, best_lineup, best_captain,
                             best_vice, lineup_sum, cap_bonus, bench_sum,
                             proj_total, proj_log >>
           ELSE \E L \in optimal :
                LET lineup == FilterSeq(selected, L)
                    sum    == SumSeq(expected_points, lineup)
                    bonus  == CapBonus(lineup)
                    boost  == BenchBoost(lineup)
                    proj   == sum + bonus + boost
                IN  /\ lineup_sum' = sum
                    /\ cap_bonus' = bonus
                    /\ bench_sum' = boost
                    /\ proj_total' = proj
                    /\ proj_log' = Append(proj_log, <<fIdx, proj>>)
                    /\ IF Improves(proj)
                       THEN /\ best_proj' = proj
                            /\ best_form' = FormationLabel(f)
                            /\ best_lineup' = lineup
                            /\ best_captain' = MaxByEp(lineup)
                            /\ best_vice' = ViceOf(lineup)
                       ELSE UNCHANGED << best_form, best_proj, best_lineup,
                                         best_captain, best_vice >>
    /\ fIdx' = fIdx + 1
    /\ UNCHANGED << pc, chip, transfersArg, squadArg, files, current_squad,
                    players, team_nfix, next_gw, free_transfers,
                    expected_points, selected, total_cost, squad_expected,
                    bench, output, events >>
    /\ UNCHANGED outside

\* line 252 (the return) and line 333 (the bench)
Bench ==
    /\ pc = "lineup"
    /\ fIdx > Len(formations)
    /\ bench' = SortedDesc(FilterSeq(selected, Range(selected) \ Range(best_lineup)))
    /\ pc' = "save"
    /\ events' = Append(events, <<"optimize_lineup", "returned">>)
    /\ UNCHANGED << chip, transfersArg, squadArg, files, current_squad,
                    players, team_nfix, next_gw, free_transfers,
                    expected_points, selected, total_cost, squad_expected,
                    fIdx, best_form, best_proj, best_lineup, best_captain,
                    best_vice, lineup_sum, cap_bonus, bench_sum, proj_total, proj_log,
                    output >>
    /\ UNCHANGED outside

(***************************************************************************)
(* save_squad (lines 29-37).  The file's content is modelled by the ids of *)
(* its records; the records handed to json.dump are kept in the log.       *)
(***************************************************************************)
WriteOutcomes == {"written", "open_failed", "dump_failed"}

\* variant: the player dicts are written as they are
optimized_squad_Whole(sel) == [k \in DOMAIN sel |-> players[sel[k]]]

\* lines 31-32: the records save_squad builds from the squad
optimized_squad(sel) ==
    [k \in DOMAIN sel |->
        [id           |-> players[sel[k]].id,
         web_name     |-> players[sel[k]].web_name,
         element_type |-> players[sel[k]].element_type,
         team         |-> players[sel[k]].team]]

\* variant: an exception of open() or json.dump leaves save_squad
AfterSave_Reraise(outcome) == IF outcome = "written" THEN "print" ELSE "crashed"

\* lines 33-37: every exception of open() or json.dump is caught and logged;
\* save_squad returns to main, which goes on to print_output (line 338)
AfterSave(outcome) == "print"

SaveSquad ==
    /\ pc = "save"
    /\ \E outcome \in WriteOutcomes :
         /\ files' = [files EXCEPT ![SQUAD_FILE] =
                        CASE outcome = "written"     ->
                               LET recs == optimized_squad(selected)
                               IN  FileOk([k \in DOMAIN recs |-> recs[k].id])
                          [] outcome = "open_failed" -> @
                          [] outcome = "dump_failed" ->
                               [status |-> "malformed", content |-> <<>>]]
         /\ events' = Append(events, <<"write", SQUAD_FILE, outcome,
                                        optimized_squad(selected)>>)
         /\ pc' = AfterSave(outcome)
    /\ UNCHANGED << chip, transfersArg, squadArg, current_squad, players,
                    team_nfix, next_gw, free_transfers, expected_points,
                    selected, total_cost, squad_expected, fIdx, best_form,
                    best_proj, best_lineup, best_captain, best_vice,
                    lineup_sum, cap_bonus, bench_sum, proj_total, proj_log, bench,
                    output >>
    /\ UNCHANGED outside

(***************************************************************************)
(* print_output (lines 260-300).                                           *)
(***************************************************************************)
NoOutput == [printed |-> FALSE]

PrintOutput ==
    /\ pc = "print"
    /\ output' = [printed |-> TRUE, squad |-> selected, lineup |-> best_lineup,
                  formation |-> best_form, proj |-> best_proj, bench |-> bench,
                  total_cost |-> total_cost,
                  squad_expected |-> squad_expected]
    /\ pc' = "done"
    /\ events' = Append(events, <<"print">>)
    /\ UNCHANGED << chip, transfersArg, squadArg, files, current_squad,
                    players, team_nfix, next_gw, free_transfers,
                    expected_points, selected, total_cost, squad_expected,
                    fIdx, best_form, best_proj, best_lineup, best_captain,
                    best_vice, lineup_sum, cap_bonus, bench_sum, proj_total, proj_log,
                    bench >>
    /\ UNCHANGED outside

(***************************************************************************)
(* The run.                                                                *)
(***************************************************************************)
TransferArgs == {2}

\* --transfers is any integer (type=int, line 308): values outside 1..5
OutsideTransferArgs == {0, 7}

\* the file system with SQUAD_FILE as d and the --squad file as o
Files(d, o) == [p \in Paths |-> IF p = SQUAD_FILE THEN d ELSE o]

Malformed == [status |-> "malformed", content |-> <<>>]

Unreadable == [status |-> "unreadable", content |-> <<>>]

\* the command lines and file systems a run starts from.  Every chip with
\* every snapshot on the default path; one free transfer with the snapshot
\* that needs two transfers; the snapshot without a usable record, the
\* one without player 6 and the one of 14 records; the
\* read failures on the default path; the
\* --squad file in each condition, next to a default snapshot; the
\* --transfers values outside 1..5
RunInputs ==
    {[chip |-> c, transfers |-> t, squad |-> None, files |-> Files(d, Absent)] :
        c \in Chips, t \in TransferArgs,
        d \in {Absent} \cup {FileOk(s) : s \in Snapshots}}
    \cup
    {[chip |-> "none", transfers |-> 1, squad |-> None,
      files |-> Files(FileOk(TwoOffSquad), Absent)]}
    \cup
    {[chip |-> "none", transfers |-> 2, squad |-> None,
      files |-> Files(FileOk(s), Absent)] :
        s \in {StaleSquad, SpareSquad, ShortSquad}}
    \cup
    {[chip |-> "none", transfers |-> 2, squad |-> None, files |-> Files(d, Absent)] :
        d \in {Malformed, Unreadable}}
    \cup
    {[chip |-> "none", transfers |-> 2, squad |-> OVERRIDE_FILE,
      files |-> Files(FileOk(OtherSquad), o)] :
        o \in {Absent, Malformed, Unreadable, FileOk(BaseSquad)}}
    \cup
    {[chip |-> "none", transfers |-> t, squad |-> None,
      files |-> Files(FileOk(BaseSquad), Absent)] : t \in OutsideTransferArgs}

\* the locals of main() before its first statement
Blank ==
    /\ current_squad = <<>>
    /\ players = <<>>
    /\ team_nfix = <<>>
    /\ next_gw = 0
    /\ free_transfers = 0
    /\ expected_points = <<>>
    /\ selected = <<>>
    /\ total_cost = 0
    /\ squad_expected = 0
    /\ fIdx = 1
    /\ best_form = None
    /\ best_proj = 0
    /\ best_lineup = <<>>
    /\ best_captain = NoPlayer
    /\ best_vice = NoPlayer
    /\ lineup_sum = 0
    /\ cap_bonus = 0
    /\ bench_sum = 0
    /\ proj_total = 0
    /\ proj_log = <<>>
    /\ bench = <<>>
    /\ output = NoOutput
    /\ events = <<>>

\* the 9 Star Ki calculator is not running
KiIdle ==
    /\ ki_pc = "off"
    /\ birth_year = 0
    /\ birth_month = 0
    /\ birth_day = 0
    /\ gender = ""
    /\ main_num = 0
    /\ energy_num = 0
    /\ trend_num = 0

\* a dictionary without keys
EmptyDict == [k \in {} |-> None]

\* the PDF agent has not been constructed
AgentIdle ==
    /\ ag_pc = "off"
    /\ state_file = Absent
    /\ state = EmptyDict
    /\ pdf_files = {}
    /\ calls = 0

OthersIdle == KiIdle /\ AgentIdle

Init ==
    /\ pc = "load"
    /\ \E r \in RunInputs :
         /\ chip = r.chip
         /\ transfersArg = r.transfers
         /\ squadArg = r.squad
         /\ files = r.files
    /\ Blank
    /\ run = 1
    /\ py_sum = "exact"
    /\ OthersIdle

Next ==
    \/ LoadSquad
    \/ FetchData
    \/ CalculateExpectedPoints
    \/ OptimizeSquad
    \/ OptimizeLineupStep
    \/ Bench
    \/ SaveSquad
    \/ PrintOutput

Spec == Init /\ [][Next]_vars

\* main is one thread of straight-line code: once optimize_lineup has
\* returned, lines 333-339 call save_squad and then print_output, and a call
\* that can be made is made.  Nothing is assumed of the steps before.
LiveSpec == Spec /\ WF_vars(SaveSquad) /\ WF_vars(PrintOutput)

(***************************************************************************)
(* Runs that follow one another on the same file system (lines 342-343:    *)
(* each start of the script is one call of main).  The first run starts    *)
(* without a snapshot and without a chip; a later run starts when the run  *)
(* before has ended with its report, finds the files as that run left      *)
(* them, and has no chip.  The feed of each run is drawn anew.             *)
(***************************************************************************)
MaxRuns == 2

NextRun ==
    /\ pc = "done"
    /\ run < MaxRuns
    /\ run' = run + 1
    /\ pc' = "load"
    /\ chip' = "none"
    /\ transfersArg' \in TransferArgs
    /\ squadArg' = None
    /\ files' = files
    /\ current_squad' = <<>>
    /\ players' = <<>>
    /\ team_nfix' = <<>>
    /\ next_gw' = 0
    /\ free_transfers' = 0
    /\ expected_points' = <<>>
    /\ selected' = <<>>
    /\ total_cost' = 0
    /\ squad_expected' = 0
    /\ fIdx' = 1
    /\ best_form' = None
    /\ best_proj' = 0
    /\ best_lineup' = <<>>
    /\ best_captain' = NoPlayer
    /\ best_vice' = NoPlayer
    /\ lineup_sum' = 0
    /\ cap_bonus' = 0
    /\ bench_sum' = 0
    /\ proj_total' = 0
    /\ proj_log' = <<>>
    /\ bench' = <<>>
    /\ output' = NoOutput
    /\ events' = <<>>
    /\ UNCHANGED << py_sum, otherPrograms >>

FirstRunInit ==
    /\ Init
    /\ chip = "none"
    /\ transfersArg \in TransferArgs
    /\ squadArg = None
    /\ files = Files(Absent, Absent)

RunsNext == Next \/ NextRun

RunsSpec == FirstRunInit /\ [][RunsNext]_vars

\* the team selector is not running
FplIdle ==
    /\ pc = "off"
    /\ chip = "none"
    /\ transfersArg = 0
    /\ squadArg = None
    /\ files = Files(Absent, Absent)
    /\ Blank
    /\ run = 0
    /\ py_sum = "exact"

fplVars == << pc, chip, transfersArg, squadArg, files, current_squad, players,
              team_nfix, next_gw, free_transfers, expected_points, selected,
              total_cost, squad_expected, fIdx, best_form, best_proj,
              best_lineup, best_captain, best_vice, lineup_sum, cap_bonus,
              bench_sum, proj_total, proj_log, bench, output, events, run,
              py_sum >>

(***************************************************************************)
(* 9Star_KI_Profile/main.py.  One run of main(): the four inputs are read  *)
(* (lines 145-148), the three numbers are calculated (lines 151-153), and  *)
(* the profile is displayed, which looks the numbers up in the tables      *)
(* elements and directions (lines 164-213).                                *)
(***************************************************************************)
\* the birth years entered
FirstYear == 1987

LastYear == 1990

BirthYears == FirstYear..LastYear

\* the answers to "Gender (M/F)", after strip().upper()
Genders == {"M", "F", "X"}

\* str.lower() on those answers
Lower(g) == CASE g = "M" -> "m" [] g = "F" -> "f" [] g = "X" -> "x"

RECURSIVE DigitSum(_)
\* line 39: sum(int(digit) for digit in str(birth_year)), for a year >= 0
DigitSum(n) == IF n < 10 THEN n ELSE (n % 10) + DigitSum(n \div 10)

\* lines 36-54
calculate_main_number(year, g) ==
    LET year_sum == DigitSum(year)
        reduced  == ((year_sum - 1) % 9) + 1
    IN  IF Lower(g) = "m"
        THEN LET m == 11 - reduced IN IF m <= 0 THEN m + 9 ELSE m
        ELSE LET m == reduced + 4 IN IF m > 9 THEN m - 9 ELSE m

\* lines 56-60
calculate_energy_number(month, main) ==
    LET e == (main + month - 1) % 9 IN IF e = 0 THEN 9 ELSE e

\* lines 62-65
calculate_trend_number(day, energy) ==
    LET t == (energy + day - 1) % 9 IN IF t = 0 THEN 9 ELSE t

\* the keys of the tables elements (lines 7-17) and directions (lines 201-211)
ElementKeys == 1..9

DirectionKeys == 1..9

KiInit ==
    /\ FplIdle
    /\ AgentIdle
    /\ ki_pc = "main_number"
    /\ birth_year \in BirthYears
    /\ birth_month \in 1..12
    /\ birth_day \in 1..31
    /\ gender \in Genders
    /\ main_num = 0
    /\ energy_num = 0
    /\ trend_num = 0

\* line 151
CalculateMainNumber ==
    /\ ki_pc = "main_number"
    /\ main_num' = calculate_main_number(birth_year, gender)
    /\ ki_pc' = "energy_number"
    /\ UNCHANGED << birth_year, birth_month, birth_day, gender, energy_num,
                    trend_num >>
    /\ UNCHANGED << fplVars, agentVars >>

\* line 152
CalculateEnergyNumber ==
    /\ ki_pc = "energy_number"
    /\ energy_num' = calculate_energy_number(birth_month, main_num)
    /\ ki_pc' = "trend_number"
    /\ UNCHANGED << birth_year, birth_month, birth_day, gender, main_num,
                    trend_num >>
    /\ UNCHANGED << fplVars, agentVars >>

\* line 153
CalculateTrendNumber ==
    /\ ki_pc = "trend_number"
    /\ trend_num' = calculate_trend_number(birth_day, energy_num)
    /\ ki_pc' = "display"
    /\ UNCHANGED << birth_year, birth_month, birth_day, gender, main_num,
                    energy_num >>
    /\ UNCHANGED << fplVars, agentVars >>

\* lines 164-213: elements[main_num], elements[energy_num],
\* elements[trend_num], directions[main_num]; a missing key raises KeyError
DisplayProfile ==
    /\ ki_pc = "display"
    /\ ki_pc' = IF /\ main_num \in ElementKeys
                   /\ energy_num \in ElementKeys
                   /\ trend_num \in ElementKeys
                   /\ main_num \in DirectionKeys
                THEN "done" ELSE "key_error"
    /\ UNCHANGED << birth_year, birth_month, birth_day, gender, main_num,
                    energy_num, trend_num >>
    /\ UNCHANGED << fplVars, agentVars >>

KiNext ==
    \/ CalculateMainNumber
    \/ CalculateEnergyNumber
    \/ CalculateTrendNumber
    \/ DisplayProfile

KiSpec == KiInit /\ [][KiNext]_vars

(***************************************************************************)
(* pdf-x-agent/src/agent.py.  One PDFXAgent: __init__ calls load_state     *)
(* (line 28); afterwards process_new_documents, create_and_post, get_stats *)
(* and save_state are called in any order (interactive_session, lines      *)
(* 235-297; run_once, lines 343-353, is process_new_documents, then        *)
(* create_and_post, then save_state).  The agent may be constructed again  *)
(* on the state file the earlier one has left.  The dictionaries are       *)
(* functions from keys to values; the time stamps are all "now".           *)
(***************************************************************************)
\* the operations carried out in one behaviour
MaxCalls == 4

\* lines 37-43 and 46-52: the keys of a fresh state
StateKeys == {"last_run", "processed_files", "posted_tweets", "total_runs",
              "errors"}

\* lines 37-43 and 46-52
DefaultState == [last_run |-> None, processed_files |-> <<>>,
                 posted_tweets |-> <<>>, total_runs |-> 0, errors |-> <<>>]

\* the files of PDF_DIR, in the order glob lists them
PdfOrder == << "a.pdf", "b.pdf" >>

PdfNames == {PdfOrder[i] : i \in DOMAIN PdfOrder}

\* line 79: pdf_processor.get_file_hash
get_file_hash(f) == << "hash", f >>

\* lines 92-96: the record of a processed file
ProcessedRecord(f) == [filename |-> f, hash |-> get_file_hash(f)]

\* a state as save_state wrote it after one file and one post
EarlierState == [last_run |-> "now",
                 processed_files |-> << ProcessedRecord("a.pdf") >>,
                 posted_tweets |-> << "tweet" >>, total_runs |-> 1,
                 errors |-> <<>>]

\* the conditions of data/agent_state.json when the agent is constructed:
\* absent; in a directory that cannot be searched; present but not readable;
\* present with text that is not JSON; present with a JSON object
StateFiles ==
    { Absent,
      [status |-> "no_access", content |-> <<>>],
      [status |-> "unreadable", content |-> <<>>],
      [status |-> "malformed", content |-> <<>>],
      FileOk(DefaultState),
      FileOk(EarlierState),
      FileOk(EmptyDict),
      FileOk([last_run |-> "now"]) }

\* file_handler.py lines 13-21: json.load of the file, and {} on any error
read_json(f) == IF f.status = "ok" THEN f.content ELSE EmptyDict

\* agent.py lines 30-52.  exists() of a path in a directory that cannot be
\* searched raises or returns False, depending on the Python version: the
\* except branch or the else branch, both give the fresh state
load_state(f) ==
    IF f.status = "no_access" THEN DefaultState
    ELSE IF f.status # "absent" THEN read_json(f)
    ELSE DefaultState

\* d[k] = v
SetItem(d, k, v) ==
    [x \in DOMAIN d \cup {k} |-> IF x = k THEN v ELSE d[x]]

\* lines 54-61 and file_handler.py lines 23-32: the state and the file after
\* save_state on state s, when the write succeeds (ok) or fails
save_state(s, ok) ==
    LET s1 == SetItem(s, "last_run", "now")
    IN  [state |-> s1, file |-> IF ok THEN FileOk(s1) ELSE state_file]

AgentInit ==
    /\ FplIdle
    /\ KiIdle
    /\ ag_pc = "init"
    /\ state_file \in StateFiles
    /\ state = EmptyDict
    /\ pdf_files \in SUBSET PdfNames
    /\ calls = 0

\* lines 28, 30-52
LoadState ==
    /\ ag_pc = "init"
    /\ state' = load_state(state_file)
    /\ ag_pc' = "ready"
    /\ UNCHANGED << state_file, pdf_files, calls >>
    /\ UNCHANGED << fplVars, kiVars >>

\* lines 82-83: the file is in state["processed_files"] with its hash
AlreadyProcessed(s, f) ==
    \E i \in DOMAIN s["processed_files"] :
        /\ s["processed_files"][i].filename = f
        /\ s["processed_files"][i].hash = get_file_hash(f)

\* lines 63-103.  Without pdf files the state is not looked at (lines
\* 70-72); otherwise line 83 reads state["processed_files"] for the first
\* file, and a missing key leaves the method with KeyError.  done are the
\* new files for which process_single_pdf returns data (line 88)
ProcessNewDocuments ==
    /\ ag_pc = "ready"
    /\ calls < MaxCalls
    /\ calls' = calls + 1
    /\ IF pdf_files = {}
       THEN UNCHANGED << ag_pc, state >>
       ELSE IF "processed_files" \notin DOMAIN state
       THEN ag_pc' = "key_error" /\ UNCHANGED state
       ELSE \E done \in SUBSET {f \in pdf_files : ~AlreadyProcessed(state, f)} :
              LET new == SelectSeq(PdfOrder, LAMBDA f : f \in done)
                  rec == [i \in DOMAIN new |-> ProcessedRecord(new[i])]
              IN  /\ state' = SetItem(state, "processed_files",
                                      state["processed_files"] \o rec)
                  /\ UNCHANGED ag_pc
    /\ UNCHANGED << state_file, pdf_files >>
    /\ UNCHANGED << fplVars, kiVars >>

\* how far create_and_post gets: no content selected (lines 145-147), the
\* post published (lines 161-174), the post refused (lines 175-186), an
\* exception in the analysis, the generation or the posting (line 188)
PostOutcomes == {"no_content", "posted", "post_failed", "exception"}

\* lines 188-196: the handler of create_and_post on state s.  A missing
\* "errors" raises KeyError inside the handler, which leaves the method
ExceptHandler(s, ok) ==
    IF "errors" \notin DOMAIN s
    THEN [pc |-> "key_error", state |-> s, file |-> state_file]
    ELSE LET r == save_state(SetItem(s, "errors", s["errors"] \o << "exception" >>), ok)
         IN  [pc |-> "ready", state |-> r.state, file |-> r.file]

\* lines 139-196 on state s
create_and_post(s, outcome, ok) ==
    CASE outcome = "no_content" ->
            [pc |-> "ready", state |-> s, file |-> state_file]
      [] outcome = "posted" ->
            IF "posted_tweets" \notin DOMAIN s
            THEN ExceptHandler(s, ok)
            ELSE LET s1 == SetItem(s, "posted_tweets",
                                   s["posted_tweets"] \o << "tweet" >>)
                 IN  IF "total_runs" \notin DOMAIN s1
                     THEN ExceptHandler(s1, ok)
                     ELSE LET r == save_state(SetItem(s1, "total_runs",
                                                     s1["total_runs"] + 1), ok)
                          IN  [pc |-> "ready", state |-> r.state, file |-> r.file]
      [] outcome = "post_failed" ->
            IF "errors" \notin DOMAIN s
            THEN ExceptHandler(s, ok)
            ELSE LET r == save_state(SetItem(s, "errors",
                                     s["errors"] \o << "post_failed" >>), ok)
                 IN  [pc |-> "ready", state |-> r.state, file |-> r.file]
      [] outcome = "exception" -> ExceptHandler(s, ok)

CreateAndPost ==
    /\ ag_pc = "ready"
    /\ calls < MaxCalls
    /\ calls' = calls + 1
    /\ \E outcome \in PostOutcomes, ok \in BOOLEAN :
         LET r == create_and_post(state, outcome, ok)
         IN  /\ ag_pc' = r.pc
             /\ state' = r.state
             /\ state_file' = r.file
    /\ UNCHANGED pdf_files
    /\ UNCHANGED << fplVars, kiVars >>

\* lines 198-215: the five keys are read; a missing one raises KeyError
GetStats ==
    /\ ag_pc = "ready"
    /\ calls < MaxCalls
    /\ calls' = calls + 1
    /\ ag_pc' = IF StateKeys \subseteq DOMAIN state THEN "ready" ELSE "key_error"
    /\ UNCHANGED << state_file, state, pdf_files >>
    /\ UNCHANGED << fplVars, kiVars >>

\* line 353: save_state at the end of run_once
SaveState ==
    /\ ag_pc = "ready"
    /\ calls < MaxCalls
    /\ calls' = calls + 1
    /\ \E ok \in BOOLEAN :
         LET r == save_state(state, ok)
         IN  /\ state' = r.state
             /\ state_file' = r.file
    /\ UNCHANGED << ag_pc, pdf_files >>
    /\ UNCHANGED << fplVars, kiVars >>

\* lines 19-28: the program is started again, after it ended or failed; the
\* new agent has no state until load_state
Construct ==
    /\ ag_pc \in {"ready", "key_error"}
    /\ calls < MaxCalls
    /\ calls' = calls + 1
    /\ ag_pc' = "init"
    /\ state' = EmptyDict
    /\ UNCHANGED << state_file, pdf_files >>
    /\ UNCHANGED << fplVars, kiVars >>

AgentNext ==
    \/ LoadState
    \/ ProcessNewDocuments
    \/ CreateAndPost
    \/ GetStats
    \/ SaveState
    \/ Construct

AgentSpec == AgentInit /\ [][AgentNext]_vars

(***************************************************************************)
(* optimize_lineup in binary64.  The run above carries the amounts in      *)
(* exact hundredths; Python carries them as floats: expected_points holds  *)
(* round(exp, 2) (line 122), the float nearest to a number of hundredths,  *)
(* and lines 238-244 add and compare floats.  Here a float x >= 0 is the   *)
(* integer x * 2^60 in three limbs of 24 bits, the most significant        *)
(* first; every float met is a multiple of 2^-60, as the smallest value    *)
(* met, 0.01, has its last bit at 2^-59.  The amounts met stay below 2^16. *)
(***************************************************************************)
\* 2^24
Limb == 16777216

\* the significant bits of a binary64 value
Precision == 53

B64Zero == << 0, 0, 0 >>

RECURSIVE BitLen(_)
\* the number of bits of n >= 0
BitLen(n) == IF n = 0 THEN 0 ELSE 1 + BitLen(n \div 2)

RECURSIVE Pow2(_)
Pow2(n) == IF n = 0 THEN 1 ELSE 2 * Pow2(n - 1)

\* the carries of the two lower limbs moved up
Carry(x) ==
    LET c1 == x[3] \div Limb
        m  == x[2] + c1
    IN  << x[1] + (m \div Limb), m % Limb, x[3] % Limb >>

\* the number of bits of the integer the limbs stand for
Bits(x) ==
    IF x[1] > 0 THEN 48 + BitLen(x[1])
    ELSE IF x[2] > 0 THEN 24 + BitLen(x[2])
    ELSE BitLen(x[3])

\* the exact number x, plus a non-zero part below its last bit when sticky,
\* rounded to the nearest value of 53 significant bits, a tie to the even
\* one.  The bits dropped lie in the last limb
RoundNearestEven(x, sticky) ==
    LET drop == Bits(x) - Precision
    IN  IF drop <= 0 THEN x
        ELSE LET unit == Pow2(drop)
                 half == unit \div 2
                 r    == x[3] % unit
                 down == x[3] - r
                 odd  == (x[3] \div unit) % 2 = 1
                 up   == \/ r > half
                         \/ r = half /\ (sticky \/ odd)
             IN  Carry(<< x[1], x[2], IF up THEN down + unit ELSE down >>)

\* a + b of two floats
FAdd(a, b) ==
    RoundNearestEven(Carry(<< a[1] + b[1], a[2] + b[2], a[3] + b[3] >>), FALSE)

\* a * n of a float and a small int
FMul(a, n) ==
    RoundNearestEven(Carry(<< a[1] * n, a[2] * n, a[3] * n >>), FALSE)

\* a > b of two floats
FGreater(a, b) ==
    \/ a[1] > b[1]
    \/ a[1] = b[1] /\ a[2] > b[2]
    \/ a[1] = b[1] /\ a[2] = b[2] /\ a[3] > b[3]

\* line 122: round(exp, 2) for a value of k >= 0 hundredths, the float
\* nearest to k / 100: k * 2^60 divided by 100 limb by limb, then rounded
FromHundredths(k) ==
    LET h0 == k * 4096
        r1 == h0 % 100
        r2 == (r1 * Limb) % 100
        r3 == (r2 * Limb) % 100
    IN  RoundNearestEven(<< h0 \div 100, (r1 * Limb) \div 100,
                            (r2 * Limb) \div 100 >>, r3 # 0)

\* the floats of the members of the list s
FloatsOf(s) == [i \in DOMAIN s |-> FromHundredths(expected_points[s[i]])]

RECURSIVE SumFrom(_, _, _)
\* the items of xs from the i-th on added to acc one by one, each addition
\* rounded (and worked out before the next one is begun)
SumFrom(xs, i, acc) ==
    IF i > Len(xs) THEN acc
    ELSE CHOOSE r \in {SumFrom(xs, i + 1, v) : v \in {FAdd(acc, xs[i])}} : TRUE

\* sum() before Python 3.12: the items added to 0 from left to right
SumSequential(xs) == IF xs = <<>> THEN B64Zero ELSE SumFrom(xs, 2, xs[1])

RECURSIVE ExactSum(_)
\* the limbs of the exact sum, not rounded
ExactSum(xs) ==
    IF xs = <<>> THEN B64Zero
    ELSE LET rest == ExactSum(Tail(xs))
         IN  << xs[1][1] + rest[1], xs[1][2] + rest[2], xs[1][3] + rest[3] >>

\* sum() since Python 3.12, compensated summation: the rounding errors of
\* the additions are added up (exactly, for lists this short) and added to
\* the result at the end, which gives the exact sum rounded once
SumCompensated(xs) == RoundNearestEven(Carry(ExactSum(xs)), FALSE)

PySums == {"sequential", "compensated"}

\* lines 238 and 243: sum(p['expected_points'] for p in s)
FloatSum(s) ==
    IF py_sum = "sequential" THEN SumSequential(FloatsOf(s))
    ELSE SumCompensated(FloatsOf(s))

\* line 240, in floats
FloatCapBonus(lineup) ==
    IF lineup = <<>> THEN B64Zero
    ELSE FMul(FromHundredths(expected_points[SortedDesc(lineup)[1]]),
              CapMultiplier)

\* lines 241-243, in floats
FloatProjTotal(lineup) ==
    LET onField == FAdd(FloatSum(lineup), FloatCapBonus(lineup))
    IN  IF chip = "bench_boost"
        THEN FAdd(onField,
                  FloatSum(FilterSeq(selected, Range(selected) \ Range(lineup))))
        ELSE onField

\* the expected points of the squads handed to optimize_lineup: positive,
\* <<base, step, skew>> as in the feed
FloatProfiles == {<<b, s, k>> : b \in {100, 130}, s \in {50, 100}, k \in {0, 3}}

\* optimize_lineup is entered (line 332) with the squad of players 1..15,
\* two goalkeepers, five defenders, five midfielders, three forwards
Binary64Init ==
    /\ OthersIdle
    /\ run = 1
    /\ py_sum \in PySums
    /\ pc = "lineup"
    /\ chip \in Chips
    /\ transfersArg = 1
    /\ squadArg = None
    /\ files = Files(Absent, Absent)
    /\ current_squad = <<>>
    /\ \E ep \in FloatProfiles : players = Feed(ep, 10, 20, 0)
    /\ team_nfix = [t \in TeamIds |-> 1]
    /\ next_gw = 1
    /\ free_transfers = 1
    /\ expected_points = [i \in DOMAIN players |-> players[i].fix_exp]
    /\ selected = BaseSquad
    /\ total_cost = SumSeq(NowCost, selected)
    /\ squad_expected = SumSeq(expected_points, selected)
    /\ fIdx = 1
    /\ best_form = None
    /\ best_proj = B64Zero
    /\ best_lineup = <<>>
    /\ best_captain = NoPlayer
    /\ best_vice = NoPlayer
    /\ lineup_sum = B64Zero
    /\ cap_bonus = B64Zero
    /\ bench_sum = B64Zero
    /\ proj_total = B64Zero
    /\ proj_log = <<>>
    /\ bench = <<>>
    /\ output = NoOutput
    /\ events = <<>>

\* lines 225-250 with the amounts of lines 238-245 in floats
OptimizeLineupStepBinary64 ==
    /\ pc = "lineup"
    /\ fIdx <= Len(formations)
    /\ LET f == formations[fIdx]
           optimal == SolveLineup(f)
       IN  IF optimal = {}
           THEN UNCHANGED << best_form, best_proj, best_lineup, best_captain,
                             best_vice, lineup_sum, cap_bonus, bench_sum,
                             proj_total, proj_log >>
           ELSE \E L \in optimal :
                LET lineup == FilterSeq(selected, L)
                    proj   == FloatProjTotal(lineup)
                IN  /\ lineup_sum' = FloatSum(lineup)
                    /\ cap_bonus' = FloatCapBonus(lineup)
                    /\ bench_sum' =
                         IF chip = "bench_boost"
                         THEN FloatSum(FilterSeq(selected,
                                       Range(selected) \ Range(lineup)))
                         ELSE B64Zero
                    /\ proj_total' = proj
                    /\ proj_log' = Append(proj_log, <<fIdx, proj>>)
                    /\ IF FGreater(proj, best_proj)
                       THEN /\ best_proj' = proj
                            /\ best_form' = FormationLabel(f)
                            /\ best_lineup' = lineup
                            /\ best_captain' = MaxByEp(lineup)
                            /\ best_vice' = ViceOf(lineup)
                       ELSE UNCHANGED << best_form, best_proj, best_lineup,
                                         best_captain, best_vice >>
    /\ fIdx' = fIdx + 1
    /\ UNCHANGED << pc, chip, transfersArg, squadArg, files, current_squad,
                    players, team_nfix, next_gw, free_transfers,
                    expected_points, selected, total_cost, squad_expected,
                    bench, output, events >>
    /\ UNCHANGED outside

Binary64Next ==
    \/ OptimizeLineupStepBinary64
    \/ Bench

Binary64Spec == Binary64Init /\ [][Binary64Next]_vars

(***************************************************************************)
(* Vocabulary of the properties.  These are written from the variables of  *)
(* the run alone, not from the operators that model the solver calls.      *)
(***************************************************************************)
\* optimize_squad has returned a squad
SquadReturned == pc \in {"lineup", "save", "print", "done"}

\* optimize_lineup has returned
LineupReturned == pc \in {"save", "print", "done"}

\* the held players: the snapshot's records that match an eligible player
HeldIds == {e \in Range(current_squad) : e \in DOMAIN expected_points}

\* the mode optimize_squad ran in
RanTransferMode == HeldIds # {} /\ chip \notin {"wildcard", "free_hit"}

SquadIds == Range(selected)

CostOfIds(S) == SumF([i \in DOMAIN players |-> players[i].now_cost], S)

CountOfType(S, pos) == Cardinality({i \in S : players[i].element_type = pos})

CountOfTeam(S, t) == Cardinality({i \in S : players[i].team = t})

EpValues(S) == {expected_points[i] : i \in S}

\* a formation was evaluated in the last step of the lineup loop
FormationEvaluated == pc = "lineup" /\ fIdx > 1 /\ Len(proj_log) = fIdx - 1

(***************************************************************************)
(* C1.  In full-rebuild mode every squad returned by optimize_squad has    *)
(* exactly 15 distinct players, a total cost of at most 100.0 (1000        *)
(* tenths) and exactly 2 goalkeepers, 5 defenders, 5 midfielders and 3     *)
(* forwards.                                                               *)
(***************************************************************************)
C1_RebuildSquadValid ==
    (SquadReturned /\ ~RanTransferMode) =>
        /\ Len(selected) = 15
        /\ Cardinality(SquadIds) = 15
        /\ CostOfIds(SquadIds) <= 1000
        /\ total_cost <= 1000
        /\ CountOfType(SquadIds, 1) = 2
        /\ CountOfType(SquadIds, 2) = 5
        /\ CountOfType(SquadIds, 3) = 5
        /\ CountOfType(SquadIds, 4) = 3

\* a rebuilt squad that leaves out an eligible player with more expected
\* points than a selected player of the same position and of a club the
\* squad has fewer than three players of: only the budget can explain it
C1_Witness_BudgetBinds ==
    /\ SquadReturned /\ ~RanTransferMode
    /\ \E j \in DOMAIN expected_points \ SquadIds : \E i \in SquadIds :
         /\ players[i].element_type = players[j].element_type
         /\ expected_points[j] > expected_points[i]
         /\ CountOfTeam(SquadIds \ {i}, players[j].team) < 3
         /\ CostOfIds((SquadIds \ {i}) \cup {j}) > 1000

(***************************************************************************)
(* C2.  In full-rebuild mode, for every club that appears in the feed      *)
(* (whatever its id, also outside 1..20), the squad returned holds at most *)
(* 3 players of that club.                                                 *)
(***************************************************************************)
C2_AtMostThreePerClub ==
    (SquadReturned /\ ~RanTransferMode) =>
        \A t \in {players[i].team : i \in DOMAIN players} :
            CountOfTeam(SquadIds, t) <= 3

(***************************************************************************)
(* C3.  For every squad returned and every expected-points assignment,     *)
(* optimize_lineup returns a lineup of exactly 11 members of the squad,    *)
(* with exactly 1 goalkeeper and (defender, midfielder, forward) counts of *)
(* one of the seven formations, together with the matching label.          *)
(***************************************************************************)
LineupShape(L) == << CountOfType(L, 2), CountOfType(L, 3), CountOfType(L, 4) >>

C3_LineupValid ==
    LineupReturned =>
        /\ Len(best_lineup) = 11
        /\ Cardinality(Range(best_lineup)) = 11
        /\ Range(best_lineup) \subseteq SquadIds
        /\ CountOfType(Range(best_lineup), 1) = 1
        /\ \E k \in DOMAIN formations :
             /\ LineupShape(Range(best_lineup)) = formations[k]
             /\ best_form = FormationLabel(formations[k])

(***************************************************************************)
(* C4.  Whenever optimize_lineup returns a non-empty lineup, the captain   *)
(* and the vice-captain are two distinct members of it, the captain's      *)
(* expected points are >= the vice-captain's, and the vice-captain's are   *)
(* >= those of every other member, also when members tie at the top.       *)
(***************************************************************************)
C4_CaptainAndVice ==
    best_lineup # <<>> =>
        /\ best_captain \in Range(best_lineup)
        /\ best_vice \in Range(best_lineup)
        /\ best_captain # best_vice
        /\ expected_points[best_captain] >= expected_points[best_vice]
        /\ \A m \in Range(best_lineup) \ {best_captain, best_vice} :
             expected_points[best_vice] >= expected_points[m]

\* a returned lineup in which at least two members share the highest value
C4_Witness_TieAtTop ==
    /\ LineupReturned /\ best_lineup # <<>>
    /\ \E a, b \in Range(best_lineup) :
         /\ a # b
         /\ expected_points[a] = expected_points[b]
         /\ \A m \in Range(best_lineup) : expected_points[m] <= expected_points[a]

(***************************************************************************)
(* C5.  With the triple-captain chip the projected total returned counts   *)
(* the top scorer three times in total: the lineup sum plus twice the top  *)
(* value.                                                                  *)
(***************************************************************************)
C5_TripleCaptainCountsThree ==
    (chip = "triple_captain" /\ best_lineup # <<>>) =>
        best_proj = SumSeq(expected_points, best_lineup)
                    + 2 * SetMax(EpValues(Range(best_lineup)))

C7_BenchBoost ==
    /\ FormationEvaluated =>
          /\ proj_total = lineup_sum + cap_bonus + bench_sum
          /\ bench_sum = IF chip = "bench_boost"
                         THEN squad_expected - lineup_sum ELSE 0
    /\ best_lineup # <<>> =>
          /\ Cardinality(SquadIds \ Range(best_lineup)) = 4
          /\ best_proj - SumSeq(expected_points, best_lineup)
                 - (IF chip = "triple_captain" THEN 3 ELSE 2)
                       * SetMax(EpValues(Range(best_lineup)))
             = IF chip = "bench_boost"
               THEN SumF(expected_points, SquadIds \ Range(best_lineup))
               ELSE 0

\* a lineup returned under bench boost whose bench is worth something
C7_Witness_BenchCounts ==
    /\ LineupReturned /\ chip = "bench_boost" /\ best_lineup # <<>>
    /\ SumF(expected_points, SquadIds \ Range(best_lineup)) # 0

(***************************************************************************)
(* C8.  optimize_lineup returns the formation whose projected total is the *)
(* highest of the seven, and the earliest of them in the enumeration       *)
(* order when several share it.                                            *)
(***************************************************************************)
\* the index of the earliest formation with the highest projected total
FirstBest ==
    CHOOSE k \in DOMAIN proj_log :
        /\ \A j \in DOMAIN proj_log : proj_log[j][2] <= proj_log[k][2]
        /\ \A j \in 1..(k - 1) : proj_log[j][2] < proj_log[k][2]

C8_BestFormationFirstFound ==
    LineupReturned =>
        /\ Len(proj_log) = 7
        /\ best_form = FormationLabel(formations[proj_log[FirstBest][1]])
        /\ best_proj = proj_log[FirstBest][2]

(***************************************************************************)
(* C9.  In transfer mode every squad returned has exactly 15 players, each *)
(* held player is either kept or sold, no player is both kept and bought,  *)
(* and as many held players are sold as non-held players are bought.       *)
(***************************************************************************)
C9_TransferSquad ==
    (SquadReturned /\ RanTransferMode) =>
        /\ Len(selected) = 15
        /\ Cardinality(SquadIds) = 15
        /\ SquadIds \subseteq DOMAIN expected_points
        /\ Cardinality(HeldIds \ SquadIds) = Cardinality(SquadIds \ HeldIds)
        /\ Cardinality(HeldIds \cap SquadIds) + Cardinality(HeldIds \ SquadIds)
             = Cardinality(HeldIds)

(***************************************************************************)
(* C10.  In transfer mode the total cost of the players bought does not    *)
(* exceed the total cost of the held players sold, and no fixed 100.0 cap  *)
(* applies: a held squad that meets the position and club constraints is   *)
(* never infeasible, whatever it costs.                                    *)
(***************************************************************************)
HeldSquadValid ==
    /\ Cardinality(HeldIds) = 15
    /\ \A pos \in 1..4 : CountOfType(HeldIds, pos) = pos_counts[pos]
    /\ \A t \in 1..20 : CountOfTeam(HeldIds, t) <= 3

C10_SellToBuyBudget ==
    /\ (SquadReturned /\ RanTransferMode) =>
          CostOfIds(SquadIds \ HeldIds) <= CostOfIds(HeldIds \ SquadIds)
    /\ (pc = "crashed" /\ DOMAIN expected_points # {}) =>
          ~(RanTransferMode /\ HeldSquadValid)

(***************************************************************************)
(* C11.  In transfer mode, when k more players are transferred out than    *)
(* free_transfers allows, the value the run reports for the squad is the   *)
(* sum of the selected players' expected points minus 4 points (400        *)
(* hundredths) per extra transfer.                                         *)
(***************************************************************************)
\* the held entries that are not in the squad returned
SoldCount ==
    Len(SelectSeq(current_squad,
                  LAMBDA e : e \in DOMAIN expected_points /\ e \notin SquadIds))

\* k: the transfers beyond the free ones
ExtraOut == IF SoldCount > free_transfers THEN SoldCount - free_transfers ELSE 0

C11_ReportedObjectivePenalized ==
    (pc = "done" /\ RanTransferMode) =>
        output.squad_expected
            = SumSeq(expected_points, selected) - 400 * ExtraOut

(***************************************************************************)
(* C12.  In transfer mode the squad returned (kept and bought players) has *)
(* exactly 2 goalkeepers, 5 defenders, 5 midfielders and 3 forwards and at *)
(* most 3 players of any club.                                             *)
(***************************************************************************)
C12_TransferSquadShape ==
    (SquadReturned /\ RanTransferMode) =>
        /\ \A pos \in 1..4 : CountOfType(SquadIds, pos) = pos_counts[pos]
        /\ \A t \in {players[i].team : i \in DOMAIN players} :
             CountOfTeam(SquadIds, t) <= 3

(***************************************************************************)
(* C13.  As claimed: optimize_squad runs in transfer mode exactly when the *)
(* snapshot is non-empty and the chip is neither wildcard nor free_hit;    *)
(* otherwise it runs in full-rebuild mode and the held players place no    *)
(* constraint on the result.                                               *)
(***************************************************************************)
\* the mode optimize_squad ran in, "" when it has not run
ModeRun ==
    LET ran == SelectSeq(events, LAMBDA e : e[1] = "optimize_squad")
    IN  IF ran = <<>> THEN "" ELSE ran[1][2]

\* an unlimited-transfer chip is active
Unlimited == chip \in {"wildcard", "free_hit"}

\* the squads of 15 eligible players with 2/5/5/3 players per position
ShapedSquads ==
    LET el(pos) == {i \in DOMAIN expected_points : players[i].element_type = pos}
    IN  {G \cup D \cup M \cup F :
            G \in KSubsets(el(1), 2), D \in KSubsets(el(2), 5),
            M \in KSubsets(el(3), 5), F \in KSubsets(el(4), 3)}

\* the greatest total of expected points of a squad within the fixed
\* budget and with at most 3 players of each club of Clubs
BestTotal(Clubs) ==
    SetMax({SumF(expected_points, S) :
              S \in {T \in ShapedSquads :
                       /\ CostOfIds(T) <= 1000
                       /\ \A t \in Clubs : CountOfTeam(T, t) <= 3}})

\* the result is a best squad of the full rebuild, whatever is held
FreeOfHeld ==
    /\ CostOfIds(SquadIds) <= 1000
    /\ squad_expected = BestTotal(1..20)

C13_Original_ModeBySnapshot ==
    /\ ModeRun # "" =>
          (ModeRun = "transfer" <=> (current_squad # <<>> /\ ~Unlimited))
    /\ (SquadReturned /\ ModeRun = "rebuild") => FreeOfHeld

(***************************************************************************)
(* C13, amended.  optimize_squad runs in transfer mode exactly when at     *)
(* least one record of the snapshot matches an eligible player and the     *)
(* chip is neither wildcard nor free_hit; otherwise (no snapshot, no       *)
(* record that matches, or one of these chips) it runs in full-rebuild     *)
(* mode and the held players place no constraint on the result.            *)
(***************************************************************************)
C13_ModeByMatchedPlayers ==
    /\ ModeRun # "" =>
          (ModeRun = "transfer" <=> (HeldIds # {} /\ ~Unlimited))
    /\ (SquadReturned /\ (HeldIds = {} \/ Unlimited)) => FreeOfHeld
    /\ (SquadReturned /\ HeldIds # {} /\ ~Unlimited) =>
          SoldCount = Cardinality(SquadIds \ HeldIds)

\* a squad returned for a snapshot that is not empty and has no record
\* that matches an eligible player
C13_Witness_NoMatch ==
    /\ SquadReturned
    /\ current_squad # <<>>
    /\ HeldIds = {}
    /\ ModeRun = "rebuild"

(***************************************************************************)
(* C14.  When no 15-player assignment satisfies the constraints of the     *)
(* mode, optimize_squad raises and returns no squad, and the run ends      *)
(* without writing the snapshot and without reporting a squad or lineup.   *)
(***************************************************************************)
\* the held entries, in snapshot order
HeldEntries == SelectSeq(current_squad, LAMBDA e : e \in DOMAIN expected_points)

\* the number of entries of the sequence s that are in the set T
EntriesIn(s, T) == Len(SelectSeq(s, LAMBDA e : e \in T))

\* the number of entries of the sequence s that are not in the set T
EntriesOut(s, T) == Len(SelectSeq(s, LAMBDA e : e \notin T))

\* the squad T meets the constraints the mode that ran puts on a squad
MeetsConstraints(T) ==
    IF ModeRun = "rebuild"
    THEN /\ CostOfIds(T) <= 1000
         /\ \A t \in 1..20 : CountOfTeam(T, t) <= 3
    ELSE /\ EntriesOut(HeldEntries, T)
              = Cardinality(T \ HeldIds)
         /\ CostOfIds(T \ HeldIds)
              <= SumSeq([i \in DOMAIN players |-> players[i].now_cost],
                        SelectSeq(HeldEntries, LAMBDA e : e \notin T))
         /\ EntriesIn(HeldEntries, T)
              = Cardinality(T \cap HeldIds)
         /\ \A t \in 1..20 : CountOfTeam(T, t) <= 3

NoAssignment == \A T \in ShapedSquads : ~MeetsConstraints(T)

NothingWritten == \A k \in DOMAIN events : events[k][1] # "write"

NothingReported == output = [printed |-> FALSE]

Excluded(i) ==
    \/ players[i].chance = <<0>>
    \/ team_nfix[players[i].team] = 0

C15_ExcludedNeverSelected ==
    \A i \in DOMAIN players :
        Excluded(i) =>
            /\ i \notin DOMAIN expected_points
            /\ i \notin Range(selected)
            /\ i \notin Range(best_lineup)
            /\ i \notin Range(bench)
            /\ output.printed =>
                  i \notin Range(output.squad) \cup Range(output.lineup)
                             \cup Range(output.bench)

\* a transfer-mode run reported on a feed with a player at availability 0
\* and a player of a club without fixture, neither of them held
C15_Witness_TransferWithExcluded ==
    /\ pc = "done"
    /\ RanTransferMode
    /\ \E i \in DOMAIN players : players[i].chance = <<0>>
    /\ \E i \in DOMAIN players : team_nfix[players[i].team] = 0

(***************************************************************************)
(* C16.  A player whose availability is null and whose club has a fixture  *)
(* is not excluded and is scored as a player with availability 100: with  *)
(* the availability fraction 1.0.                                          *)
(***************************************************************************)
\* calculate_expected_points has returned
PointsComputed == pc \notin {"load", "fetch", "points"} /\ players # <<>>

NullAvailability(i) ==
    /\ players[i].chance = << >>
    /\ team_nfix[players[i].team] > 0

\* j is at availability 100 and otherwise scores as i does
TwinAtHundred(i, j) ==
    /\ players[j].chance = <<100>>
    /\ players[j].fix_exp = players[i].fix_exp
    /\ team_nfix[players[j].team] = team_nfix[players[i].team]

C16_NullAvailabilityIsFull ==
    PointsComputed =>
        \A i \in DOMAIN players :
            NullAvailability(i) =>
                /\ i \in DOMAIN expected_points
                /\ expected_points[i]
                     = players[i].fix_exp * team_nfix[players[i].team]
                /\ \A j \in DOMAIN players :
                     TwinAtHundred(i, j) =>
                         /\ j \in DOMAIN expected_points
                         /\ expected_points[j] = expected_points[i]

\* expected points computed for a feed with a player at null availability,
\* worth something, and a player at 100 that scores the same
C16_Witness_NullAndTwin ==
    /\ PointsComputed
    /\ \E i, j \in DOMAIN players :
         /\ NullAvailability(i)
         /\ TwinAtHundred(i, j)
         /\ players[i].fix_exp # 0

(***************************************************************************)
(* C17.  In full-rebuild mode the squad returned has the greatest total of *)
(* expected points among the sets of 15 players that satisfy the budget,   *)
(* the position counts and the limit of 3 players per club; when one such  *)
(* set is best, it is the set returned.                                    *)
(***************************************************************************)
\* the clubs of the feed
FeedClubs == {players[i].team : i \in DOMAIN players}

\* the sets of 15 eligible players that satisfy the squad constraints
ValidSquads ==
    {T \in ShapedSquads :
        /\ CostOfIds(T) <= 1000
        /\ \A t \in FeedClubs : CountOfTeam(T, t) <= 3}

C17_RebuildSquadOptimal ==
    (SquadReturned /\ ModeRun = "rebuild") =>
        /\ SquadIds \in ValidSquads
        /\ \A T \in ValidSquads :
             SumF(expected_points, T) <= SumF(expected_points, SquadIds)
        /\ squad_expected = SumF(expected_points, SquadIds)


(***************************************************************************)
(* C18.  Failures to read the snapshot.                                    *)
(***************************************************************************)
\* the file the run reads its snapshot from (line 312, line 315)
SnapshotPath == IF squadArg = None THEN SQUAD_FILE ELSE squadArg

\* save_squad has not been called yet: the files are those the run began with
NotYetWritten == SelectSeq(events, LAMBDA e : e[1] = "write") = <<>>

\* the read of the snapshot cannot succeed: the file is absent, is not
\* JSON, or cannot be opened
ReadFailure == NotYetWritten /\ files[SnapshotPath].status # "ok"

\* the run ended before optimize_squad was called
StoppedAtLoad == pc = "crashed" /\ ModeRun = ""

\* C18: every failure to read the snapshot (absent, malformed, I/O error; on
\* the default path and on the --squad path) is recovered locally: the run
\* goes on with an empty current squad and optimize_squad runs as a full
\* rebuild.
C18_ReadFailureRecovered ==
    (pc # "load" /\ ReadFailure) =>
        /\ ~StoppedAtLoad
        /\ current_squad = <<>>
        /\ ModeRun \in {"", "rebuild"}


(***************************************************************************)
(* C19.  The report is reached whatever the outcome of the write.          *)
(***************************************************************************)
\* the outcomes of the calls of save_squad so far
WriteResults ==
    LET w == SelectSeq(events, LAMBDA e : e[1] = "write")
    IN  [i \in DOMAIN w |-> w[i][3]]

\* print_output has shown the squad and the lineup the optimizations returned
Reported ==
    /\ pc = "done"
    /\ output.printed
    /\ output.squad = selected
    /\ output.lineup = best_lineup

\* save_squad leaves the results of the optimizations as they are and
\* returns to main
SaveKeepsResults ==
    (pc = "save" /\ pc' # "save") =>
        /\ pc' = "print"
        /\ selected' = selected
        /\ best_lineup' = best_lineup

\* C19: once optimize_squad and optimize_lineup have returned, the run always
\* reaches print_output with the squad and the lineup they returned, also
\* when the write of the snapshot fails: the failure does not end the run and
\* does not change the squad reported.
C19_ReportAlwaysReached ==
    /\ LineupReturned ~> Reported
    /\ [][SaveKeepsResults]_vars

\* the write failed (at open or at json.dump) and the report was made with
\* the squad of optimize_squad
C19_Witness_ReportedAfterFailedWrite ==
    /\ Reported
    /\ WriteResults # <<>>
    /\ WriteResults[1] \in {"open_failed", "dump_failed"}
    /\ Len(selected) = 15


(***************************************************************************)
(* C20.  One read before the optimizations, one write after them, and the  *)
(* shape of the records written.                                           *)
(***************************************************************************)
\* the positions in the log of the steps of a kind
StepsOf(kind) == {k \in DOMAIN events : events[k][1] = kind}

\* the positions of the calls of an optimization that returned a result
ReturnedSteps(kind) ==
    {k \in StepsOf(kind) : events[k][Len(events[k])] = "returned"}

\* the fields of a record of the snapshot
SavedFields == {"id", "web_name", "element_type", "team"}

\* the records hold one record per player of the squad, with the four
\* fields and the player's values
OneRecordPerPlayer(recs) ==
    /\ Len(recs) = Cardinality(SquadIds)
    /\ \A i \in SquadIds :
         Cardinality({k \in DOMAIN recs : recs[k].id = i}) = 1
    /\ \A k \in DOMAIN recs :
         /\ DOMAIN recs[k] = SavedFields
         /\ recs[k].id \in SquadIds
         /\ recs[k].web_name = players[recs[k].id].web_name
         /\ recs[k].element_type = players[recs[k].id].element_type
         /\ recs[k].team = players[recs[k].id].team

\* C20: in every run the snapshot is read at most once, before any
\* optimization, and written at most once, only after optimize_squad and
\* optimize_lineup have both returned; the snapshot written holds exactly one
\* record per player of the new squad, each with the fields id, web_name,
\* element_type and team and no other.
C20_ReadOnceWriteOnce ==
    /\ Cardinality(StepsOf("read")) <= 1
    /\ \A r \in StepsOf("read") :
         \A o \in StepsOf("optimize_squad") \cup StepsOf("optimize_lineup") :
            r < o
    /\ Cardinality(StepsOf("write")) <= 1
    /\ \A w \in StepsOf("write") :
         /\ \E o \in ReturnedSteps("optimize_squad") : o < w
         /\ \E o \in ReturnedSteps("optimize_lineup") : o < w
         /\ OneRecordPerPlayer(events[w][4])
         /\ events[w][3] = "written" =>
              /\ files[events[w][2]].status = "ok"
              /\ files[events[w][2]].content =
                    [k \in DOMAIN events[w][4] |-> events[w][4][k].id]

\* a run that read a snapshot, made transfers and wrote the new one
C20_Witness_ReadThenWritten ==
    /\ pc = "done"
    /\ StepsOf("read") # {}
    /\ ModeRun = "transfer"
    /\ \E w \in StepsOf("write") : events[w][3] = "written"
    /\ SquadIds # Range(current_squad)

(***************************************************************************)
(* C21.  The file written and the file read.                               *)
(***************************************************************************)
\* the paths save_squad has opened for writing so far
PathsWritten == {events[k][2] : k \in StepsOf("write")}

\* C21: the snapshot a run overwrites at its end is the file it read at its
\* start (the file it looked for, when that file was absent), also when
\* --squad names the file; a file that was not read is never written.
C21_WrittenFileWasRead == \A p \in PathsWritten : p = SnapshotPath

(***************************************************************************)
(* C22.  The free-transfer count handed to optimize_squad.                 *)
(***************************************************************************)
\* main has computed free_transfers (line 325)
TransfersComputed == pc \notin {"load", "fetch"} /\ next_gw # 0

\* C22: for every integer given as --transfers and every next gameweek, the
\* free-transfer count passed to optimize_squad lies in 1..5.
C22_FreeTransfersInRange == TransfersComputed => free_transfers \in 1..5

(***************************************************************************)
(* C23.  The bench.                                                        *)
(***************************************************************************)
\* the sequence s of players is in order of non-increasing expected points
NonIncreasing(s) ==
    \A a, b \in DOMAIN s : a < b => expected_points[s[a]] >= expected_points[s[b]]

\* the bench holds the squad members outside the lineup, each once
BenchIsRest ==
    /\ Range(bench) = SquadIds \ Range(best_lineup)
    /\ Cardinality(Range(bench)) = Len(bench)
    /\ Range(bench) \cap Range(best_lineup) = {}
    /\ Range(bench) \cup Range(best_lineup) = SquadIds

\* C23: the bench computed after optimize_lineup consists of exactly the
\* squad members that are not in the lineup returned (disjoint from the
\* lineup, together with it the 15-player squad, hence 4 members) and is
\* ordered by non-increasing expected points.
C23_BenchIsRestSorted ==
    LineupReturned =>
        /\ BenchIsRest
        /\ Cardinality(SquadIds) = 15
        /\ Len(bench) = 4
        /\ NonIncreasing(bench)

(***************************************************************************)
(* C24.  The lineup evaluated for one formation.                           *)
(***************************************************************************)
\* the formation evaluated in the last step of the loop
LastFormation == formations[fIdx - 1]

\* the squad's players of a position
SquadOfType(pos) == {i \in SquadIds : players[i].element_type = pos}

\* the subsets of the squad with 1 goalkeeper and the formation's numbers of
\* defenders, midfielders and forwards
ShapedLineups(f) ==
    {G \cup D \cup M \cup F :
        G \in KSubsets(SquadOfType(1), 1), D \in KSubsets(SquadOfType(2), f[1]),
        M \in KSubsets(SquadOfType(3), f[2]), F \in KSubsets(SquadOfType(4), f[3])}

\* the summed expected points of the k players of a position with the most
\* expected points
TopSum(pos, k) ==
    LET top == CHOOSE X \in KSubsets(SquadOfType(pos), k) :
                 \A a \in X, b \in SquadOfType(pos) \ X :
                    expected_points[a] >= expected_points[b]
    IN  SumF(expected_points, top)

\* the last step made its lineup the best so far
BestSetInLastStep == best_form = FormationLabel(LastFormation)

\* C24: for each formation taken by itself, the lineup optimize_lineup
\* evaluates for it has the greatest summed expected points among the
\* 11-player subsets of the squad with exactly 1 goalkeeper and the
\* formation's defender, midfielder and forward counts; that is the sum of
\* the top players by expected points within each position.
C24_FormationLineupOptimal ==
    FormationEvaluated =>
        /\ \A X \in ShapedLineups(LastFormation) :
              /\ Cardinality(X) = 11
              /\ SumF(expected_points, X) <= lineup_sum
        /\ \E X \in ShapedLineups(LastFormation) :
              SumF(expected_points, X) = lineup_sum
        /\ lineup_sum = TopSum(1, 1) + TopSum(2, LastFormation[1])
                          + TopSum(3, LastFormation[2])
                          + TopSum(4, LastFormation[3])
        /\ BestSetInLastStep =>
              /\ Range(best_lineup) \in ShapedLineups(LastFormation)
              /\ SumSeq(expected_points, best_lineup) = lineup_sum

\* a formation after the first whose lineup became the best so far, in a
\* squad where another lineup of the same shape has a smaller sum
C24_Witness_BetterThanOther ==
    /\ FormationEvaluated /\ fIdx > 2
    /\ BestSetInLastStep
    /\ \E X \in ShapedLineups(LastFormation) :
          SumF(expected_points, X) < lineup_sum

(***************************************************************************)
(* C25.  The captain is a player with the squad's highest value.           *)
(***************************************************************************)
\* the squad has 15 players, 2/5/5/3 by position
SquadShaped ==
    /\ Cardinality(SquadIds) = 15
    /\ Cardinality(SquadOfType(1)) = 2
    /\ Cardinality(SquadOfType(2)) = 5
    /\ Cardinality(SquadOfType(3)) = 5
    /\ Cardinality(SquadOfType(4)) = 3

\* the highest expected points of the squad
SquadMax == SetMax(EpValues(SquadIds))

\* the multiplier of the captain bonus
BonusFactor == IF chip = "triple_captain" THEN 3 ELSE 2

SquadCallEnded == StepsOf("optimize_squad") # {}

\* a record of the snapshot names a player of the feed who is not eligible
\* (availability 0 or no fixture in the gameweek)
HeldButExcluded ==
    \E k \in DOMAIN current_squad :
        /\ current_squad[k] \in DOMAIN players
        /\ current_squad[k] \notin DOMAIN expected_points

\* C27: in transfer mode, when at least one but fewer than 15 records of the
\* snapshot match an eligible player, optimize_squad raises the
\* infeasibility error and returns no squad: the unmatched held players are
\* neither kept nor counted as sold.
C27_PartialMatchFails ==
    (SquadCallEnded /\ RanTransferMode /\ Len(HeldEntries) < 15) =>
        /\ pc = "crashed"
        /\ events[Len(events)] = <<"optimize_squad", "transfer", "raised">>
        /\ selected = <<>>
        /\ NothingWritten
        /\ NothingReported

\* the call failed for a snapshot of 15 known players of whom one is not
\* eligible in this gameweek
C27_Witness_HeldPlayerExcluded ==
    /\ SquadCallEnded /\ RanTransferMode
    /\ Len(current_squad) = 15
    /\ Len(HeldEntries) = 14
    /\ HeldButExcluded
    /\ pc = "crashed"

(***************************************************************************)
(* C28.  A run that starts from the snapshot of the run before.            *)
(***************************************************************************)
\* the run read a snapshot that the run before it wrote (the first run
\* found none), and no chip lifts the transfer limits
ReadsPreviousSquad ==
    /\ run > 1
    /\ current_squad # <<>>
    /\ chip \notin {"wildcard", "free_hit"}

\* all 15 players of the snapshot are eligible in this run's feed and belong
\* to clubs with ids 1..20
AllHeldEligible ==
    /\ Len(current_squad) = 15
    /\ \A k \in DOMAIN current_squad :
          /\ current_squad[k] \in DOMAIN expected_points
          /\ players[current_squad[k]].team \in 1..20

\* keeping every held player is an assignment the constraints allow
KeepingAllIsValid ==
    /\ HeldIds \in ShapedSquads
    /\ MeetsConstraints(HeldIds)

\* C28: when run N+1 reads the snapshot a successful run N wrote, no
\* unlimited-transfer chip is active and all 15 held players are still
\* eligible, with club ids in 1..20, transfer mode is feasible in run N+1
\* (keeping all 15 is a valid assignment) and the squad returned has total
\* expected points, minus 4 per extra transfer, at least equal to the total
\* expected points of the held squad.
C28_NextRunKeepsOrImproves ==
    (SquadCallEnded /\ ReadsPreviousSquad /\ AllHeldEligible) =>
        /\ ModeRun = "transfer"
        /\ KeepingAllIsValid
        /\ SquadReturned
        /\ SumF(expected_points, SquadIds) - 400 * ExtraOut
              >= SumF(expected_points, HeldIds)

(***************************************************************************)
(* C29.  The numbers of the 9 Star Ki profile are keys of the tables.      *)
(***************************************************************************)
\* calculate_main_number has returned
MainNumberKnown == ki_pc \in {"energy_number", "trend_number", "display", "done", "key_error"}

\* C29: for every birth year with a positive digit sum and every gender
\* input, calculate_main_number returns an integer in 1..9, so the lookups
\* elements[main_num] and directions[main_num] in main never fail;
\* calculate_energy_number and calculate_trend_number likewise return values
\* in 1..9 for months 1..12 and days 1..31.
C29_NumbersAreKeys ==
    /\ MainNumberKnown => main_num \in 1..9
    /\ ki_pc \in {"trend_number", "display", "done", "key_error"} =>
          energy_num \in 1..9
    /\ ki_pc \in {"display", "done", "key_error"} => trend_num \in 1..9
    /\ ki_pc # "key_error"

(***************************************************************************)
(* C30.  The agent's state has its five keys after load_state.             *)
(***************************************************************************)
\* load_state has returned and no call has failed since
StateLoaded == ag_pc = "ready"

\* C30: after load_state, whatever the condition of the state file (absent,
\* unreadable, malformed JSON, or valid), the state contains the keys
\* last_run, processed_files, posted_tweets, total_runs and errors, and no
\* later process_new_documents, create_and_post or get_stats call fails on
\* a missing key.
C30_StateKeysAfterLoad ==
    /\ StateLoaded => StateKeys \subseteq DOMAIN state
    /\ ag_pc # "key_error"

(***************************************************************************)
(* C26.  With bench boost every formation counts the whole squad.          *)
(***************************************************************************)
\* optimize_lineup has evaluated the seven formations and returned
AllFormationsTried == pc = "save" /\ Len(proj_log) = Len(formations)

\* the projected totals of the formations, as the code computed them
TotalsComputed == {proj_log[j][2] : j \in DOMAIN proj_log}

\* C26: with the bench-boost chip and a squad of two goalkeepers, five
\* defenders, five midfielders and three forwards, every formation yields
\* the same projected total, so optimize_lineup returns the first formation
\* enumerated, 3-5-2, whenever that total is positive.
C26_BenchBoostReturnsFirstFormation ==
    (/\ AllFormationsTried
     /\ chip = "bench_boost"
     /\ py_sum \in PySums
     /\ \A t \in TotalsComputed : FGreater(t, B64Zero))
        => /\ Cardinality(TotalsComputed) = 1
           /\ best_form = "3-5-2"

=============================================================================
